---------------------------- MODULE Spec2Model ----------------------------
(***************************************************************************)
(* TermIterator (src/core/term_iterator.rs): a k-way merge of the sorted   *)
(* term streams of the segments of an index.  The iterator owns one key    *)
(* stream per segment, a BinaryHeap of HeapItem and a reusable result      *)
(* buffer (current_term, current_segment_ords).                            *)
(*                                                                         *)
(* A call of next() is modelled by its control points: the entry of the    *)
(* call up to the head of the loop (NextCall), one iteration of the loop   *)
(* (LoopIter) and the break that returns the pair (LoopBreak).  pc holds   *)
(* the position of the single caller; a call always runs to its return     *)
(* before the next call starts.                                            *)
(***************************************************************************)
EXTENDS Integers, Sequences, FiniteSets, TLC

VARIABLES
    segments,               \* the term dictionaries of the segment readers (frozen input)
    key_streams,            \* self.key_streams: what each stream has still to give
    heap,                   \* self.heap
    current_term,           \* self.current_term
    current_segment_ords,   \* self.current_segment_ords
    pc,                     \* position of the caller: "uninit" | "idle" | "loop" | "panicked"
    ret,                    \* what the last completed next() returned: "unset" | "None" | "Some" | "panic"
    yielded,                \* the pairs returned so far, in order
    pulls,                  \* number of calls of next() made on each key stream
    exhausted_calls,        \* number of calls of next() that returned None
    instances               \* other iterators alive at the same time, each with its
                            \* own streams, heap and buffers (empty unless some are built)

vars == <<segments, key_streams, heap, current_term, current_segment_ords,
          pc, ret, yielded, pulls, exhausted_calls, instances>>

---------------------------------------------------------------------------
(* Bounds of the model *)

MaxStreams == 2
MaxStreamLen == 2
\* how many times the caller calls next() again once it has returned None
MaxExhaustedCalls == 2

\* The keys the bounded inputs are built from: the empty key, keys that are
\* prefixes of one another and keys that differ in a byte.
Keys == { <<>>, <<97>>, <<97, 98>>, <<98>> }

---------------------------------------------------------------------------
(* Option<T> *)

None == <<>>
Some(x) == <<x>>

(* static EMPTY: [u8; 0] = [] *)
EMPTY == <<>>

(* Term: a byte sequence; Term::from(&[u8]) copies the bytes into a Term *)
Term_from(bytes) == [data |-> bytes]

(* Ord for Vec<u8> / [u8]: lexicographic, bytewise; a proper prefix is less *)
RECURSIVE BytesCmp(_, _)
BytesCmp(a, b) ==
    IF a = <<>> THEN (IF b = <<>> THEN "Equal" ELSE "Less")
    ELSE IF b = <<>> THEN "Greater"
    ELSE IF Head(a) < Head(b) THEN "Less"
    ELSE IF Head(a) > Head(b) THEN "Greater"
    ELSE BytesCmp(Tail(a), Tail(b))

(* Ord for Term *)
TermCmp(s, t) == BytesCmp(s.data, t.data)

(* Ord for usize *)
UsizeCmp(m, n) == IF m < n THEN "Less" ELSE IF m > n THEN "Greater" ELSE "Equal"

(* Ord for the tuple (&Term, &usize): lexicographic *)
TupleCmp(x, y) ==
    IF TermCmp(x[1], y[1]) # "Equal" THEN TermCmp(x[1], y[1]) ELSE UsizeCmp(x[2], y[2])

\* Variant: self compared with other, nothing reversed (a min-heap order is lost)
HeapItemCmpForward(self, other) ==
    TupleCmp(<<self.term, self.segment_ord>>, <<other.term, other.segment_ord>>)

\* Variant: the terms are reversed but not the ordinals
HeapItemCmpOrdForward(self, other) ==
    TupleCmp(<<other.term, self.segment_ord>>, <<self.term, other.segment_ord>>)

(* impl Ord for HeapItem: other compared with self, i.e. the order is reversed *)
HeapItemCmp(self, other) ==
    TupleCmp(<<other.term, other.segment_ord>>, <<self.term, self.segment_ord>>)

---------------------------------------------------------------------------
(* BinaryHeap<HeapItem>: a max-heap under HeapItemCmp.  It is modelled by  *)
(* its content, in insertion order; peek and pop pick a greatest item.     *)

HeapPush(h, item) == Append(h, item)

Greatest(h) ==
    CHOOSE i \in 1..Len(h) :
        /\ \A j \in 1..Len(h) : HeapItemCmp(h[i], h[j]) # "Less"
        /\ \A j \in 1..(i - 1) : HeapItemCmp(h[j], h[i]) = "Less"

HeapPeek(h) == IF h = <<>> THEN None ELSE Some(h[Greatest(h)])

HeapPop(h) ==
    IF h = <<>> THEN [item |-> None, heap |-> h]
    ELSE LET g == Greatest(h) IN
         [item |-> Some(h[g]),
          heap |-> SubSeq(h, 1, g - 1) \o SubSeq(h, g + 1, Len(h))]

(* Keys::next of the fst crate: the next key in order, or None at the end  *)
(* of the stream and on every call after it.                               *)
KeysNext(s) ==
    IF s = <<>> THEN [item |-> None, stream |-> s]
    ELSE [item |-> Some(Head(s)), stream |-> Tail(s)]

---------------------------------------------------------------------------
(* The iterator as a record, for the methods that take &mut self *)

Self == [key_streams |-> key_streams, heap |-> heap,
         current_term |-> current_term,
         current_segment_ords |-> current_segment_ords,
         pulls |-> pulls, panicked |-> FALSE]

\* Variant: an item is pushed whether or not the stream gave a key
push_next_segment_el_unconditional(self, segment_ord) ==
    LET ords == Append(self.current_segment_ords, segment_ord) IN
    IF segment_ord \notin DOMAIN self.key_streams
    THEN [self EXCEPT !.current_segment_ords = ords, !.panicked = TRUE]
    ELSE LET r == KeysNext(self.key_streams[segment_ord]) IN
         [self EXCEPT
            !.current_segment_ords = ords,
            !.key_streams[segment_ord] = r.stream,
            !.pulls[segment_ord] = @ + 1,
            !.heap = HeapPush(@, [term |-> Term_from(IF r.item # None
                                                     THEN r.item[1] ELSE EMPTY),
                                  segment_ord |-> segment_ord])]

\* Variant: the stream is indexed from one instead of from zero
push_next_segment_el_off_by_one(self, segment_ord) ==
    LET ords == Append(self.current_segment_ords, segment_ord) IN
    IF (segment_ord + 1) \notin DOMAIN self.key_streams
    THEN [self EXCEPT !.current_segment_ords = ords, !.panicked = TRUE]
    ELSE LET r == KeysNext(self.key_streams[segment_ord + 1]) IN
         [self EXCEPT
            !.current_segment_ords = ords,
            !.key_streams[segment_ord + 1] = r.stream,
            !.pulls[segment_ord + 1] = @ + 1,
            !.heap = IF r.item # None
                     THEN HeapPush(@, [term |-> Term_from(r.item[1]),
                                       segment_ord |-> segment_ord])
                     ELSE @]

(* TermIterator::push_next_segment_el *)
push_next_segment_el(self, segment_ord) ==
    LET ords == Append(self.current_segment_ords, segment_ord) IN
    IF segment_ord \notin DOMAIN self.key_streams
    THEN \* self.key_streams[segment_ord]: index out of bounds
         [self EXCEPT !.current_segment_ords = ords, !.panicked = TRUE]
    ELSE LET r == KeysNext(self.key_streams[segment_ord]) IN
         [self EXCEPT
            !.current_segment_ords = ords,
            !.key_streams[segment_ord] = r.stream,
            !.pulls[segment_ord] = @ + 1,
            !.heap = IF r.item # None
                     THEN HeapPush(@, [term |-> Term_from(r.item[1]),
                                       segment_ord |-> segment_ord])
                     ELSE @]

\* Variant: the loop stops one stream short (0..key_streams_len - 1)
RECURSIVE SeedFromSkipLast(_, _, _)
SeedFromSkipLast(self, segment_ord, key_streams_len) ==
    IF segment_ord >= key_streams_len - 1 THEN self
    ELSE SeedFromSkipLast(push_next_segment_el(self, segment_ord), segment_ord + 1,
                          key_streams_len)

(* the loop of TermIterator::new: for segment_ord in 0..key_streams_len *)
RECURSIVE SeedFrom(_, _, _)
SeedFrom(self, segment_ord, key_streams_len) ==
    IF segment_ord >= key_streams_len THEN self
    ELSE SeedFrom(push_next_segment_el(self, segment_ord), segment_ord + 1,
                  key_streams_len)

(* TermIterator::new *)
New(streams) ==
    LET key_streams_len == Cardinality(DOMAIN streams)
        term_iterator == [key_streams |-> streams,
                          heap |-> <<>>,
                          current_term |-> Term_from(EMPTY),
                          current_segment_ords |-> <<>>,
                          pulls |-> [i \in DOMAIN streams |-> 0],
                          panicked |-> FALSE]
    IN SeedFrom(term_iterator, 0, key_streams_len)

(* impl From<&[SegmentReader]> for TermIterator: one key stream per reader *)
From(segment_readers) ==
    New([i \in DOMAIN segment_readers |-> segment_readers[i]])

---------------------------------------------------------------------------
(* Inputs *)

\* a term dictionary gives its keys in strictly ascending byte order
Ascending(s) ==
    \A i \in 1..(Len(s) - 1) : BytesCmp(s[i], s[i + 1]) = "Less"

SortedStreams ==
    { s \in UNION { [1..n -> Keys] : n \in 0..MaxStreamLen } : Ascending(s) }

BoundedInputs ==
    UNION { [0..(n - 1) -> SortedStreams] : n \in 0..MaxStreams }

\* the segments of tests::test_term_iterator: "a b d f", "a b c d f", "e f"
ReferenceSegments ==
    (0 :> << <<97>>, <<98>>, <<100>>, <<102>> >>) @@
    (1 :> << <<97>>, <<98>>, <<99>>, <<100>>, <<102>> >>) @@
    (2 :> << <<101>>, <<102>> >>)

Inputs == BoundedInputs \cup {ReferenceSegments}

---------------------------------------------------------------------------
(* Before construction: no segment readers have been handed over yet *)

Init ==
    /\ segments = <<>>
    /\ key_streams = <<>>
    /\ heap = <<>>
    /\ current_term = Term_from(EMPTY)
    /\ current_segment_ords = <<>>
    /\ pulls = <<>>
    /\ pc = "uninit"
    /\ ret = "unset"
    /\ yielded = <<>>
    /\ exhausted_calls = 0
    /\ instances = <<>>

\* the fields of the iterator after a method has run on it
Store(self) ==
    /\ key_streams' = self.key_streams
    /\ heap' = self.heap
    /\ current_term' = self.current_term
    /\ current_segment_ords' = self.current_segment_ords
    /\ pulls' = self.pulls

(* TermIterator::from(segment_readers): the iterator is built and seeded *)
Construct ==
    /\ pc = "uninit"
    /\ segments' \in Inputs
    /\ \E it \in {From(segments')} :
          /\ Store(it)
          /\ pc' = IF it.panicked THEN "panicked" ELSE "idle"
          /\ ret' = IF it.panicked THEN "panic" ELSE ret
    /\ UNCHANGED <<yielded, exhausted_calls, instances>>

\* Variant: a call that finds the heap empty seeds the iterator afresh
ReturnNoneRestart(cleared) ==
    /\ exhausted_calls < MaxExhaustedCalls
    /\ exhausted_calls' = exhausted_calls + 1
    /\ Store(From(segments))
    /\ ret' = "None"
    /\ pc' = "idle"

\* next() on an empty heap: self.heap.pop() is None and so is the result
ReturnNone(cleared) ==
    /\ exhausted_calls < MaxExhaustedCalls
    /\ exhausted_calls' = exhausted_calls + 1
    /\ Store(cleared)
    /\ ret' = "None"
    /\ pc' = "idle"

\* Variant: the stream of the popped head is not pulled again
EnterLoopNoRefill(cleared, popped) ==
    LET head == popped.item[1] IN
    /\ Store([cleared EXCEPT !.heap = popped.heap,
                             !.current_term = head.term,
                             !.current_segment_ords = <<head.segment_ord>>])
    /\ pc' = "loop"
    /\ UNCHANGED <<ret, exhausted_calls>>

\* the closure given to map, up to the head of its loop
EnterLoop(cleared, popped) ==
    LET head == popped.item[1]
        swapped == [cleared EXCEPT !.heap = popped.heap,
                                   !.current_term = head.term]
    IN \E after \in {push_next_segment_el(swapped, head.segment_ord)} :
          /\ Store(after)
          /\ pc' = IF after.panicked THEN "panicked" ELSE "loop"
          /\ ret' = IF after.panicked THEN "panic" ELSE ret
          /\ UNCHANGED exhausted_calls

\* Variant: the list of ordinals is not cleared at the entry of the call
NextCallNoClear ==
    /\ pc = "idle"
    /\ \E popped \in {HeapPop(heap)} :
          IF popped.item = None
          THEN ReturnNone(Self)
          ELSE EnterLoop(Self, popped)
    /\ UNCHANGED <<segments, yielded, instances>>

(* next(), from its entry to the head of the loop, or to its return of None *)
NextCall ==
    /\ pc = "idle"
    /\ \E cleared \in {[Self EXCEPT !.current_segment_ords = <<>>]} :
       \E popped \in {HeapPop(cleared.heap)} :
          IF popped.item = None
          THEN ReturnNone(cleared)
          ELSE EnterLoop(cleared, popped)
    /\ UNCHANGED <<segments, yielded, instances>>

\* the match guard of the loop: Some(next_heap_it) if next_heap_it.term == self.current_term
PeekMatches ==
    \E peeked \in {HeapPeek(heap)} :
        /\ peeked # None
        /\ peeked[1].term = current_term

\* .expect("This is only reached if an element was peeked beforehand.") on None
ExpectFailed ==
    /\ pc' = "panicked"
    /\ ret' = "panic"
    /\ UNCHANGED <<key_streams, heap, current_term, current_segment_ords, pulls>>

\* Variant: the loop refills the stream of the head (head.segment_ord) instead
\* of the stream of the item it has just popped
LoopIterRefillHead ==
    /\ pc = "loop"
    /\ PeekMatches
    /\ \E popped \in {HeapPop(heap)} :
       \E after \in {push_next_segment_el([Self EXCEPT !.heap = popped.heap],
                                           current_segment_ords[1])} :
          /\ Store(after)
          /\ pc' = IF after.panicked THEN "panicked" ELSE "loop"
          /\ ret' = IF after.panicked THEN "panic" ELSE ret
    /\ UNCHANGED <<segments, yielded, exhausted_calls, instances>>

(* one iteration of the loop: the peeked item is popped and its stream refilled *)
LoopIter ==
    /\ pc = "loop"
    /\ PeekMatches
    /\ \E popped \in {HeapPop(heap)} :
       IF popped.item = None
       THEN ExpectFailed
       ELSE \E after \in {push_next_segment_el([Self EXCEPT !.heap = popped.heap],
                                                popped.item[1].segment_ord)} :
               /\ Store(after)
               /\ pc' = IF after.panicked THEN "panicked" ELSE "loop"
               /\ ret' = IF after.panicked THEN "panic" ELSE ret
    /\ UNCHANGED <<segments, yielded, exhausted_calls, instances>>

\* Variant: the loop may be left before the items equal to the current term
\* are all popped
LoopBreakEarly ==
    /\ pc = "loop"
    /\ pc' = "idle"
    /\ ret' = "Some"
    /\ yielded' = Append(yielded, [term |-> current_term,
                                   segment_ords |-> current_segment_ords])
    /\ UNCHANGED <<segments, key_streams, heap, current_term,
                   current_segment_ords, pulls, exhausted_calls, instances>>

\* Variant: the loop is left on an empty heap only, not on an item of another term
LoopBreakOnlyOnEmpty ==
    /\ pc = "loop"
    /\ heap = <<>>
    /\ pc' = "idle"
    /\ ret' = "Some"
    /\ yielded' = Append(yielded, [term |-> current_term,
                                   segment_ords |-> current_segment_ords])
    /\ UNCHANGED <<segments, key_streams, heap, current_term,
                   current_segment_ords, pulls, exhausted_calls, instances>>

(* the break of the loop: next() returns (&self.current_term, self.current_segment_ords) *)
LoopBreak ==
    /\ pc = "loop"
    /\ ~PeekMatches
    /\ pc' = "idle"
    /\ ret' = "Some"
    /\ yielded' = Append(yielded, [term |-> current_term,
                                   segment_ords |-> current_segment_ords])
    /\ UNCHANGED <<segments, key_streams, heap, current_term,
                   current_segment_ords, pulls, exhausted_calls, instances>>

Next == Construct \/ NextCall \/ LoopIter \/ LoopBreak

Spec == Init /\ [][Next]_vars

(* the merge is constructed, its caller keeps calling next(), and a call that *)
(* has started runs on                                                        *)
LiveSpec ==
    Spec /\ WF_vars(Construct) /\ WF_vars(NextCall) /\ WF_vars(LoopIter) /\ WF_vars(LoopBreak)

---------------------------------------------------------------------------
(* Vocabulary of the properties *)

Ordinals == DOMAIN segments

\* the keys of the term dictionary of segment i
KeysOf(i) == { segments[i][k] : k \in 1..Len(segments[i]) }

AllKeys == UNION { KeysOf(i) : i \in Ordinals }

\* the segments whose term dictionary holds the key
Holders(key) == { i \in Ordinals : key \in KeysOf(i) }

\* byte order on the bytes of two terms
ByteLess(s, t) == BytesCmp(s.data, t.data) = "Less"

StrictlyAscending(ords) ==
    \A k \in 1..(Len(ords) - 1) : ords[k] < ords[k + 1]

Exhausted == pc = "idle" /\ ret = "None"

---------------------------------------------------------------------------
\* C1: the terms returned by successive calls of next() are strictly
\* increasing in byte order (hence no term is returned twice).
C1_StrictlyIncreasing ==
    \A k \in 1..(Len(yielded) - 1) :
        ByteLess(yielded[k].term, yielded[k + 1].term)

\* a merge of at least two streams that has returned three terms, one of
\* them held by two streams
C1_Witness ==
    /\ Cardinality(Ordinals) >= 2
    /\ Len(yielded) >= 3
    /\ \E k \in 1..Len(yielded) : Len(yielded[k].segment_ords) >= 2

\* C2: once next() has returned None, every key of every stream has been
\* returned exactly once, nothing else has been returned, and the ordinals
\* returned with a term are exactly the segments that hold it, each once.
C2_Complete ==
    Exhausted =>
        /\ \A key \in AllKeys :
            Cardinality({ k \in 1..Len(yielded) : yielded[k].term.data = key }) = 1
        /\ \A k \in 1..Len(yielded) :
            /\ yielded[k].term.data \in AllKeys
            /\ { yielded[k].segment_ords[j] : j \in 1..Len(yielded[k].segment_ords) }
                   = Holders(yielded[k].term.data)
            /\ Len(yielded[k].segment_ords)
                   = Cardinality(Holders(yielded[k].term.data))

\* an exhausted merge of two or more streams, with a term held by one
\* stream only and a term held by several
C2_Witness ==
    /\ Exhausted
    /\ Cardinality(Ordinals) >= 2
    /\ \E k \in 1..Len(yielded) : Len(yielded[k].segment_ords) = 1
    /\ \E k \in 1..Len(yielded) : Len(yielded[k].segment_ords) >= 2

\* C3: the list of ordinals is strictly ascending at every point of its
\* construction (it is only ever appended to, in the order of the pops), and
\* so is every list returned.
C3_AscendingOrdinals ==
    /\ StrictlyAscending(current_segment_ords)
    /\ \A k \in 1..Len(yielded) : StrictlyAscending(yielded[k].segment_ords)

\* a list of three ordinals has been returned
C3_Witness ==
    \E k \in 1..Len(yielded) : Len(yielded[k].segment_ords) >= 3

\* C4: once next() has returned None, it returns None ever after: no step
\* changes the last result or adds a returned pair.
C4_ExhaustionIdempotent ==
    [][ret = "None" => (ret' = "None" /\ yielded' = yielded /\ pc' = "idle")]_vars

\* next() has been called again after it returned None, in a merge that had
\* returned terms before
C4_Witness ==
    /\ exhausted_calls >= 2
    /\ ret = "None"
    /\ Len(yielded) >= 1

\* C5: for zero streams or streams that are all empty, the first call of
\* next() returns None: the call never enters its loop and returns no pair.
AllEmpty == \A i \in Ordinals : segments[i] = <<>>

C5_EmptyInput ==
    (pc # "uninit" /\ AllEmpty) =>
        /\ pc = "idle"
        /\ heap = <<>>
        /\ yielded = <<>>
        /\ ret \in {"unset", "None"}
        /\ (exhausted_calls >= 1 <=> ret = "None")

\* the first call on two empty streams has returned None
C5_Witness ==
    /\ AllEmpty
    /\ Cardinality(Ordinals) = 2
    /\ exhausted_calls = 1
    /\ ret = "None"

\* the same for a merge of zero streams
C5_WitnessZero ==
    /\ pc = "idle"
    /\ Ordinals = {}
    /\ exhausted_calls = 1
    /\ ret = "None"

---------------------------------------------------------------------------
\* the item a step has just popped: its term is the current term and its
\* ordinal the last one recorded
JustPopped == [term |-> current_term',
               segment_ord |-> current_segment_ords'[Len(current_segment_ords')]]

\* (term, ordinal) of p comes no later than that of e: byte order of the
\* terms, then numeric order of the ordinals
ExtractedBefore(p, e) ==
    \/ ByteLess(p.term, e.term)
    \/ (p.term.data = e.term.data /\ p.segment_ord <= e.segment_ord)

\* C6: every step that pops an item (the entry of a call on a non-empty heap,
\* an iteration of the loop) pops an item of the heap that has the least term
\* in byte order of all items of the heap and, among those of that term, the
\* least ordinal.
C6_PopsMinimum ==
    [][pc' = "loop" =>
         /\ \E k \in 1..Len(heap) : heap[k] = JustPopped
         /\ \A k \in 1..Len(heap) : ExtractedBefore(JustPopped, heap[k])]_vars

\* an item has just been popped in the loop from a heap that held items of
\* the same term from three streams
C6_Witness ==
    /\ pc = "loop"
    /\ Len(current_segment_ords) >= 2
    /\ Cardinality(Ordinals) >= 3
    /\ \E k \in 1..Len(heap) : heap[k].term = current_term

\* stream i has returned None to a pull
Signaled(i) == pulls[i] > Len(segments[i])

EntriesOf(i) == { k \in 1..Len(heap) : heap[k].segment_ord = i }

\* C7: between calls (after construction and after each call of next()), the
\* heap holds exactly one item of each stream that has not signalled its end,
\* none of a stream that has, and so at most as many items as streams.
C7_OnePendingEntry ==
    pc = "idle" =>
        /\ \A i \in Ordinals :
            Cardinality(EntriesOf(i)) = (IF Signaled(i) THEN 0 ELSE 1)
        /\ \A k \in 1..Len(heap) : heap[k].segment_ord \in Ordinals
        /\ Len(heap) <= Cardinality(Ordinals)

\* after a call that returned a pair: one stream has ended, another has not
C7_Witness ==
    /\ pc = "idle"
    /\ ret = "Some"
    /\ \E i \in Ordinals : Signaled(i)
    /\ \E i \in Ordinals : ~Signaled(i)

\* C8: no call fails: neither the expect on the pop that follows a peek nor
\* the indexing of key_streams panics.
C8_NeverPanics ==
    /\ pc # "panicked"
    /\ ret # "panic"

\* the loop has popped an item after peeking it, and goes on
C8_Witness ==
    /\ pc = "loop"
    /\ Len(current_segment_ords) >= 2
    /\ heap # <<>>

\* what tests::test_term_iterator expects, in order
ReferenceYields ==
    << [term |-> Term_from(<<97>>),  segment_ords |-> <<0, 1>>],
       [term |-> Term_from(<<98>>),  segment_ords |-> <<0, 1>>],
       [term |-> Term_from(<<99>>),  segment_ords |-> <<1>>],
       [term |-> Term_from(<<100>>), segment_ords |-> <<0, 1>>],
       [term |-> Term_from(<<101>>), segment_ords |-> <<2>>],
       [term |-> Term_from(<<102>>), segment_ords |-> <<0, 1, 2>>] >>

\* C9: on the three reference segments the pairs returned are, in order,
\* (a,[0,1]) (b,[0,1]) (c,[1]) (d,[0,1]) (e,[2]) (f,[0,1,2]); the seventh
\* call returns None.
C9_ReferenceScenario ==
    segments = ReferenceSegments =>
        /\ Len(yielded) <= Len(ReferenceYields)
        /\ yielded = SubSeq(ReferenceYields, 1, Len(yielded))
        /\ ret = "None" <=> (exhausted_calls >= 1)
        /\ exhausted_calls >= 1 => yielded = ReferenceYields

\* the reference merge has returned its six pairs and then None
C9_Witness ==
    /\ segments = ReferenceSegments
    /\ Len(yielded) = 6
    /\ ret = "None"

\* C10: a call that is in its loop leaves it; a caller that keeps calling
\* gets None in the end; and a call returns None exactly when it finds the
\* heap empty at its entry.
C10_Terminates ==
    /\ (pc = "loop") ~> (pc = "idle")
    /\ (pc = "idle") ~> (ret = "None")
    /\ [][pc = "idle" => ((ret' = "None" /\ pc' = "idle") <=> heap = <<>>)]_vars

\* a merge that returned three terms before None
C10_Witness ==
    /\ Exhausted
    /\ Len(yielded) >= 3
    /\ \E k \in 1..Len(yielded) : Len(yielded[k].segment_ords) >= 2

---------------------------------------------------------------------------
\* the key stream i gave to its latest pull, None if it signalled its end
LatestRead(i) ==
    IF pulls[i] >= 1 /\ pulls[i] <= Len(segments[i])
    THEN Some(Term_from(segments[i][pulls[i]]))
    ELSE None

\* the key stream i gave to the pull before its latest one
ReadBeforeLatest(i) ==
    IF pulls[i] >= 2 /\ pulls[i] - 1 <= Len(segments[i])
    THEN Some(Term_from(segments[i][pulls[i] - 1]))
    ELSE None

\* next() has been entered at least once
AdvanceBegun == pc = "loop" \/ ret # "unset"

\* C11 as stated: in every reachable state, every ordinal of
\* current_segment_ords is that of a stream whose latest-read term is
\* current_term.
C11_LatestReadIsCurrent ==
    \A k \in 1..Len(current_segment_ords) :
        /\ current_segment_ords[k] \in Ordinals
        /\ LatestRead(current_segment_ords[k]) = Some(current_term)

\* the same, between calls and after a pair has been returned only
C11_LatestReadIsCurrentAfterYield ==
    (pc = "idle" /\ ret = "Some") => C11_LatestReadIsCurrent

\* C11 (amended): from the first call of next() on, every ordinal of
\* current_segment_ords is that of a stream whose term read before its latest
\* pull is current_term: the stream has been pulled once more since, to
\* refill the heap.
C11_ReadBeforeLatestIsCurrent ==
    AdvanceBegun =>
        \A k \in 1..Len(current_segment_ords) :
            /\ current_segment_ords[k] \in Ordinals
            /\ ReadBeforeLatest(current_segment_ords[k]) = Some(current_term)

\* a pair with two ordinals has been returned, and one of its streams has
\* gone on to a later term
C11_Witness ==
    /\ pc = "idle"
    /\ ret = "Some"
    /\ Len(current_segment_ords) >= 2
    /\ \E k \in 1..Len(current_segment_ords) :
          LatestRead(current_segment_ords[k]) # None

---------------------------------------------------------------------------
\* the ordinals of a list, as a set
OrdSet(ords) == { ords[k] : k \in 1..Len(ords) }

\* the number of returned pairs whose list holds ordinal i
YieldsWith(i) ==
    Cardinality({ k \in 1..Len(yielded) : i \in OrdSet(yielded[k].segment_ords) })

\* the items of stream i in a heap
ItemsOf(h, i) == { h[k] : k \in { j \in 1..Len(h) : h[j].segment_ord = i } }

\* what a step does to the streams: construction pulls each stream once; a
\* step that pops an item pulls the stream of that item once and leaves the
\* position and the heap items of every other stream as they were; any other
\* step pulls nothing
PullsOfStep ==
    IF pc = "uninit"
    THEN pulls' = [i \in DOMAIN segments' |-> 1]
    ELSE IF pc' = "loop"
    THEN /\ JustPopped.segment_ord \in Ordinals
         /\ pulls' = [pulls EXCEPT ![JustPopped.segment_ord] = @ + 1]
         /\ \A i \in Ordinals \ {JustPopped.segment_ord} :
              /\ key_streams'[i] = key_streams[i]
              /\ ItemsOf(heap', i) = ItemsOf(heap, i)
    ELSE /\ pulls' = pulls
         /\ key_streams' = key_streams
         /\ heap' = heap

\* the pulls made on stream i so far: one at seeding, one for each returned
\* list that holds i, one if the running call has recorded i already
PullsAccounted ==
    pc \in {"idle", "loop"} =>
        \A i \in Ordinals :
            pulls[i] = 1 + YieldsWith(i)
                         + (IF pc = "loop" /\ i \in OrdSet(current_segment_ords)
                            THEN 1 ELSE 0)

\* C12: construction pulls every stream once; an advance pulls once from each
\* stream it records in its list and from no other, whose position and heap
\* item it leaves alone; so the pulls made on stream i are 1 plus the number
\* of returned lists that hold i.
C12_NoReadAhead ==
    /\ []PullsAccounted
    /\ [][PullsOfStep]_vars

\* between calls, a stream has been pulled three times while another, not
\* empty, has not been pulled since seeding
C12_Witness ==
    /\ pc = "idle"
    /\ ret = "Some"
    /\ \E i, j \in Ordinals :
          /\ pulls[i] >= 3
          /\ pulls[j] = 1
          /\ segments[j] # <<>>

---------------------------------------------------------------------------
\* stream 0 holds one key and every other stream is empty
SingleKeyInput ==
    /\ 0 \in Ordinals
    /\ Len(segments[0]) = 1
    /\ \A i \in Ordinals \ {0} : segments[i] = <<>>

\* C13: a stream is pulled once for each of its keys and once more for the
\* None that ends it, never after; a stream that is empty from the start is
\* pulled at seeding only, has no item in the heap and is in no returned
\* list; a single key x in stream 0, the other streams empty, gives (x,[0])
\* and then None.
C13_NoPullAfterEnd ==
    pc # "uninit" =>
        /\ \A i \in Ordinals :
            /\ pulls[i] <= Len(segments[i]) + 1
            /\ segments[i] = <<>> =>
                  /\ pulls[i] = 1
                  /\ ItemsOf(heap, i) = {}
                  /\ YieldsWith(i) = 0
        /\ (SingleKeyInput /\ Exhausted) =>
              yielded = << [term |-> Term_from(segments[0][1]),
                            segment_ords |-> <<0>>] >>

\* the merge of a one-key stream and an empty stream has returned its pair
\* and then None, the key stream having signalled its end too
C13_Witness ==
    /\ SingleKeyInput
    /\ Cardinality(Ordinals) = 2
    /\ Exhausted
    /\ Len(yielded) = 1
    /\ pulls[0] = 2
    /\ pulls[1] = 1

---------------------------------------------------------------------------
\* C14: once next() has returned None, a further call changes nothing of the
\* iterator: the heap is and stays empty, the list of ordinals is and stays
\* empty, the current term stays, no stream is pulled or moved; the only
\* thing the step does is return None once more.
C14_ExhaustedNoOp ==
    [][ret = "None" =>
         /\ heap = <<>>
         /\ current_segment_ords = <<>>
         /\ heap' = heap
         /\ current_segment_ords' = current_segment_ords
         /\ current_term' = current_term
         /\ key_streams' = key_streams
         /\ pulls' = pulls
         /\ exhausted_calls' = exhausted_calls + 1]_vars

\* a further call has been made on an exhausted merge of two streams whose
\* current term is the last term it returned
C14_Witness ==
    /\ exhausted_calls >= 2
    /\ Exhausted
    /\ Cardinality(Ordinals) >= 2
    /\ Len(yielded) >= 2
    /\ current_term = yielded[Len(yielded)].term

---------------------------------------------------------------------------
(* Key streams that do not keep their order: a stream may repeat a key or  *)
(* give a smaller key after a greater one                                  *)

UnsortedKeys == { <<97>>, <<98>> }

ArbitraryStreams == UNION { [1..n -> UnsortedKeys] : n \in 0..MaxStreamLen }

UnsortedInputs == UNION { [0..(n - 1) -> ArbitraryStreams] : n \in 0..MaxStreams }

(* TermIterator::from(segment_readers) on such streams *)
ConstructUnsorted ==
    /\ pc = "uninit"
    /\ segments' \in UnsortedInputs
    /\ \E it \in {From(segments')} :
          /\ Store(it)
          /\ pc' = IF it.panicked THEN "panicked" ELSE "idle"
          /\ ret' = IF it.panicked THEN "panic" ELSE ret
    /\ UNCHANGED <<yielded, exhausted_calls, instances>>

NextUnsorted == ConstructUnsorted \/ NextCall \/ LoopIter \/ LoopBreak

SpecUnsorted == Init /\ [][NextUnsorted]_vars

\* some stream of the input is not strictly ascending
SomeStreamUnsorted == \E i \in Ordinals : ~Ascending(segments[i])

\* the places of the returned lists that hold ordinal i
PlacesOf(i) ==
    UNION { { <<k, j>> : j \in { m \in 1..Len(yielded[k].segment_ords) :
                                    yielded[k].segment_ords[m] = i } } :
            k \in 1..Len(yielded) }

\* C15: whatever the order of the keys in the streams, no call panics, and
\* the calls go on returning pairs until every key of every stream has been
\* returned with the ordinal of its stream; nothing reports the disorder.
C15_UnsortedNoError ==
    /\ pc # "panicked"
    /\ ret # "panic"
    /\ Exhausted =>
          \A i \in Ordinals :
              /\ pulls[i] = Len(segments[i]) + 1
              /\ Cardinality(PlacesOf(i)) = Len(segments[i])

\* a stream gave a smaller key after a greater one, and the merge has
\* returned a term after a greater term and a term twice, then None
C15_Witness ==
    /\ SomeStreamUnsorted
    /\ Exhausted
    /\ \E k \in 1..(Len(yielded) - 1) :
          ByteLess(yielded[k + 1].term, yielded[k].term)
    /\ \E k, l \in 1..Len(yielded) : k # l /\ yielded[k].term = yielded[l].term

\* a stream gave the same key twice, and the merge has returned a list that
\* holds its ordinal twice
C15_WitnessRepeat ==
    /\ SomeStreamUnsorted
    /\ Exhausted
    /\ \E k \in 1..Len(yielded) : ~StrictlyAscending(yielded[k].segment_ords)

---------------------------------------------------------------------------
\* the keys of stream i that no returned pair holds yet
NotYielded(i) ==
    { key \in KeysOf(i) : \A k \in 1..Len(yielded) : yielded[k].term.data # key }

\* the least key of a non-empty set of keys, in byte order
LeastKey(S) == CHOOSE m \in S : \A o \in S : BytesCmp(m, o) # "Greater"

\* C17: between calls the heap holds, for each stream that has a key not yet
\* returned, exactly one item, (the least such key, the stream's ordinal),
\* and nothing else; so after a call that returned a pair every term in the
\* heap is greater than the current term.
C17_HeapIsFrontier ==
    pc = "idle" =>
        /\ \A i \in Ordinals :
              ItemsOf(heap, i) =
                 (IF NotYielded(i) = {} THEN {}
                  ELSE { [term |-> Term_from(LeastKey(NotYielded(i))),
                          segment_ord |-> i] })
        /\ Len(heap) = Cardinality({ i \in Ordinals : NotYielded(i) # {} })
        /\ ret = "Some" =>
              \A k \in 1..Len(heap) : ByteLess(current_term, heap[k].term)

\* after a returned pair the heap still holds the items of two streams, both
\* of which have had a key returned already
C17_Witness ==
    /\ pc = "idle"
    /\ ret = "Some"
    /\ Len(heap) >= 2
    /\ \A k \in 1..Len(heap) : pulls[heap[k].segment_ord] >= 2

---------------------------------------------------------------------------
(* next() as a function of the iterator, for the properties that compare   *)
(* one merge with another                                                  *)

\* the loop of next(): pop and refill while the greatest item of the heap
\* has the current term
RECURSIVE DrainLoop(_)
DrainLoop(self) ==
    IF self.panicked THEN self
    ELSE LET peeked == HeapPeek(self.heap) IN
         IF peeked # None /\ peeked[1].term = self.current_term
         THEN LET popped == HeapPop(self.heap) IN
              IF popped.item = None
              THEN [self EXCEPT !.panicked = TRUE]
              ELSE DrainLoop(push_next_segment_el(
                                [self EXCEPT !.heap = popped.heap],
                                popped.item[1].segment_ord))
         ELSE self

\* one call of next(): the iterator after the call and the pair returned
NextOn(self) ==
    LET cleared == [self EXCEPT !.current_segment_ords = <<>>]
        popped == HeapPop(cleared.heap)
    IN IF popped.item = None
       THEN [self |-> cleared, item |-> None]
       ELSE LET head == popped.item[1]
                swapped == [cleared EXCEPT !.heap = popped.heap,
                                           !.current_term = head.term]
                after == DrainLoop(push_next_segment_el(swapped, head.segment_ord))
            IN [self |-> after,
                item |-> Some([term |-> after.current_term,
                               segment_ords |-> after.current_segment_ords])]

\* next() called until it returns None: the pairs returned, in order
RECURSIVE Drive(_, _)
Drive(self, out) ==
    LET r == NextOn(self) IN
    IF r.item = None \/ r.self.panicked THEN out
    ELSE Drive(r.self, Append(out, r.item[1]))

\* the whole merge of a list of segments
Merge(segment_readers) == Drive(From(segment_readers), <<>>)

\* the orders in which the segments at hand can be passed
SegmentOrders ==
    { p \in [Ordinals -> Ordinals] : \A a, b \in Ordinals : p[a] = p[b] => a = b }

\* the segments, segment i passed at place p[i]
Permuted(p) ==
    [j \in Ordinals |-> segments[CHOOSE i \in Ordinals : p[i] = j]]

\* C18: the merge of the segments passed in another order p returns the same
\* terms in the same order as this merge, and with each term the ordinals
\* this merge returned, renamed by p and in ascending order.
C18_OrderOfSegments ==
    Exhausted =>
        \A p \in SegmentOrders :
            LET other == Merge(Permuted(p)) IN
            /\ Len(other) = Len(yielded)
            /\ \A k \in 1..Len(yielded) :
                  /\ other[k].term = yielded[k].term
                  /\ StrictlyAscending(other[k].segment_ords)
                  /\ OrdSet(other[k].segment_ords)
                        = { p[i] : i \in OrdSet(yielded[k].segment_ords) }

\* an exhausted merge of three segments that differ from one another, one
\* term of which is held by one segment only and another by two
C18_Witness ==
    /\ Exhausted
    /\ Cardinality(Ordinals) = 3
    /\ \A i, j \in Ordinals : i # j => segments[i] # segments[j]
    /\ \E k \in 1..Len(yielded) : Len(yielded[k].segment_ords) = 1
    /\ \E k \in 1..Len(yielded) : Len(yielded[k].segment_ords) = 2

---------------------------------------------------------------------------
(* Two iterators alive at once, each built by TermIterator::from over its  *)
(* own list of segment readers and advanced by its own caller.  The struct *)
(* holds all the state of an iterator: next(&mut self) reads and writes    *)
(* the fields of self only.                                                *)

PairStreams == { <<>>, << <<97>> >>, << <<97>>, <<98>> >>, << <<98>> >> }

PairInputs == [0..0 -> PairStreams] \cup [0..1 -> PairStreams]

Names == {1, 2}

\* everything of the single iterator of the other specifications stays put
OneUnchanged ==
    UNCHANGED <<segments, key_streams, heap, current_term, current_segment_ords,
                pc, ret, yielded, pulls, exhausted_calls>>

(* TermIterator::from, once for each of the two iterators *)
ConstructTwo ==
    /\ instances = <<>>
    /\ \E inputs \in [Names -> PairInputs] :
          instances' = [n \in Names |->
                          [segments |-> inputs[n],
                           self |-> From(inputs[n]),
                           yielded |-> <<>>,
                           done |-> FALSE]]
    /\ OneUnchanged

\* Variant: the heap is one object that both iterators use (that of iterator 1)
NextOfShared(n) ==
    /\ instances # <<>>
    /\ ~instances[n].done
    /\ \E r \in {NextOn([instances[n].self EXCEPT !.heap = instances[1].self.heap])} :
          instances' =
             [m \in Names |->
                IF m = n
                THEN [instances[n] EXCEPT
                        !.self = [r.self EXCEPT !.heap =
                                     IF n = 1 THEN r.self.heap ELSE instances[n].self.heap],
                        !.yielded = IF r.item = None THEN @ ELSE Append(@, r.item[1]),
                        !.done = (r.item = None)]
                ELSE [instances[m] EXCEPT
                        !.self.heap = IF m = 1 THEN r.self.heap ELSE @]]
    /\ OneUnchanged

(* a call of next() on iterator n *)
NextOf(n) ==
    /\ instances # <<>>
    /\ ~instances[n].done
    /\ \E r \in {NextOn(instances[n].self)} :
          instances' = [instances EXCEPT
                          ![n].self = r.self,
                          ![n].yielded = IF r.item = None THEN @
                                         ELSE Append(@, r.item[1]),
                          ![n].done = (r.item = None)]
    /\ OneUnchanged

NextTwo == ConstructTwo \/ (\E n \in Names : NextOf(n))

SpecTwo == Init /\ [][NextTwo]_vars

\* s is the beginning of t
IsPrefix(s, t) == Len(s) <= Len(t) /\ s = SubSeq(t, 1, Len(s))

=============================================================================
